---- MODULE Spec2Model ----
(***************************************************************************)
(* Model of the shim subsystem (source/shim-generator/Shim.cpp) and of     *)
(* transform application on propagations (source/TransformOperations.cpp)  *)
(* of Mariana Trench.                                                      *)
(*                                                                         *)
(* Every operation of the two files is a pure, synchronous function of its *)
(* arguments and of the object it is called on.  The state machine records *)
(* one call: which operation, with which arguments, and what it returned.  *)
(* Each action is one whole call, made from the initial state; the objects *)
(* are immutable once built, so calls do not influence one another.        *)
(***************************************************************************)
EXTENDS Integers, Sequences, FiniteSets

VARIABLES
  op,      \* the operation called last ("none" before the first call)
  args,    \* the arguments of that call, the receiver object included
  result   \* what the call produced

vars == <<op, args, result>>

(***************************************************************************)
(* Bounds of the model.                                                    *)
(***************************************************************************)
\* longest parameter list of a method in inference mode
MaxArgs == 3
\* longest parameter list of a method an explicit mapping is declared for
MaxMappedArgs == 1
\* most entries a declared (or stored) parameter mapping holds
MaxEntries == 2
\* most source operands of a call instruction
MaxSrcs == 2
\* number of distinct registers
NumRegisters == 2
\* longest access path of a taint tree
MaxPathLength == 1
\* longest local transform list of a transform kind
MaxTransforms == 1

(***************************************************************************)
(* Universes the inputs are drawn from.                                    *)
(***************************************************************************)
\* DexType objects are interned: a type is its identity.
Types == {"A", "B", "C"}

SeqsUpTo(S, n) == UNION {[1..k -> S] : k \in 0..n}

\* A Method as far as this code reads it: declaring class, the argument
\* types of its proto, and staticness.
Methods(T, n) == [cls : T, args : SeqsUpTo(T, n), is_static : BOOLEAN]

Registers == 0..(NumRegisters - 1)

\* The source operands of an IRInstruction, in order.
Instructions == SeqsUpTo(Registers, MaxSrcs)

(***************************************************************************)
(* std::optional and std::unordered_map.                                   *)
(***************************************************************************)
\* std::nullopt; an engaged optional holding x is {x}
nullopt == {}

Some(x) == {x}

ValueOf(optional) == CHOOSE x \in optional : TRUE

\* a default-constructed std::unordered_map
EmptyMap == [k \in {} |-> 0]

\* std::unordered_map::insert_or_assign
insert_or_assign(map, key, value) ==
  [k \in DOMAIN map \cup {key} |-> IF k = key THEN value ELSE map[k]]

\* std::unordered_map::emplace: keeps the element already stored under key
emplace(map, key, value) ==
  IF key \in DOMAIN map THEN map ELSE insert_or_assign(map, key, value)

\* every order in which the keys of an unordered_map may be visited
IterationOrders(map) ==
  {order \in [1..Cardinality(DOMAIN map) -> DOMAIN map] :
     \A i, j \in DOMAIN order : i # j => order[i] # order[j]}

(***************************************************************************)
(* Method (declared in Method.h, used by Shim.cpp).                        *)
(***************************************************************************)
nullptr == "nullptr"

\* Method::number_of_parameters: the receiver counts for an instance method
number_of_parameters(method) ==
  Len(method.args) + (IF method.is_static THEN 0 ELSE 1)

\* Method::parameter_type: the type at a receiver-inclusive position, or
\* nullptr when the method has no such parameter
Method_parameter_type(method, argument) ==
  IF argument >= number_of_parameters(method) THEN nullptr
  ELSE IF ~method.is_static /\ argument = 0 THEN method.cls
  ELSE method.args[argument - (IF method.is_static THEN 0 ELSE 1) + 1]

(***************************************************************************)
(* Shim.cpp: anonymous namespace helpers.                                  *)
(***************************************************************************)
\* The method name is only used in the error message and is left out.
get_parameter_type(dex_class, dex_proto, is_static, position) ==
  LET number_of_parameters_ == Len(dex_proto) + (IF is_static THEN 0 ELSE 1)
  IN  IF position >= number_of_parameters_ THEN nullptr
      ELSE IF ~is_static /\ position = 0 THEN dex_class
      ELSE dex_proto[position - (IF is_static THEN 0 ELSE 1) + 1]

(***************************************************************************)
(* ShimMethod.                                                             *)
(***************************************************************************)
RECURSIVE emplace_arguments(_, _, _, _)
\* the loop of the constructor: dex_arguments[i..] are emplaced at index..
emplace_arguments(types_to_position, dex_arguments, i, index) ==
  IF i > Len(dex_arguments) THEN types_to_position
  ELSE emplace_arguments(
         emplace(types_to_position, dex_arguments[i], index),
         dex_arguments, i + 1, index + 1)

RECURSIVE assign_arguments(_, _, _, _)
assign_arguments(types_to_position, dex_arguments, i, index) ==
  IF i > Len(dex_arguments) THEN types_to_position
  ELSE assign_arguments(
         insert_or_assign(types_to_position, dex_arguments[i], index),
         dex_arguments, i + 1, index + 1)

\* the constructor with insert_or_assign in place of emplace: the index
\* then holds the last position of a type
ShimMethod_last_position(method) ==
  [method_ |-> method,
   types_to_position_ |->
     IF ~method.is_static
     THEN assign_arguments(
            insert_or_assign(EmptyMap, method.cls, 0), method.args, 1, 1)
     ELSE assign_arguments(EmptyMap, method.args, 1, 0)]

\* ShimMethod::ShimMethod
ShimMethod(method) ==
  [method_ |-> method,
   types_to_position_ |->
     IF ~method.is_static
     THEN emplace_arguments(
            emplace(EmptyMap, method.cls, 0), method.args, 1, 1)
     ELSE emplace_arguments(EmptyMap, method.args, 1, 0)]

\* ShimMethod::parameter_type
parameter_type(shim_method, argument) ==
  Method_parameter_type(shim_method.method_, argument)

\* ShimMethod::type_position
type_position(shim_method, dex_type) ==
  IF dex_type \notin DOMAIN shim_method.types_to_position_ THEN nullopt
  ELSE Some(shim_method.types_to_position_[dex_type])

(***************************************************************************)
(* ShimParameterMapping.  A mapping is its map_ member.                    *)
(***************************************************************************)
\* ShimParameterMapping::at
at(map_, parameter_position) ==
  IF parameter_position \notin DOMAIN map_ THEN nullopt
  ELSE Some(map_[parameter_position])

\* ShimParameterMapping::insert
insert(map_, parameter_position, shim_parameter_position) ==
  insert_or_assign(map_, parameter_position, shim_parameter_position)

RECURSIVE infer_loop(_, _, _, _, _)
\* the for loop of infer_parameter_mapping, from index `position` on
infer_loop(parameter_mapping, dex_arguments, first_parameter_position, shim_method, position) ==
  IF ~(position < Len(dex_arguments)) THEN parameter_mapping
  ELSE LET shim_position ==
             type_position(shim_method, dex_arguments[position + 1])
       IN  infer_loop(
             IF shim_position # nullopt
             THEN insert(parameter_mapping,
                         position + first_parameter_position,
                         ValueOf(shim_position))
             ELSE parameter_mapping,
             dex_arguments, first_parameter_position, shim_method,
             position + 1)

\* inference that also looks the receiver of an instance target up
infer_with_receiver(shim_target_class, shim_target_proto, shim_target_is_static, shim_method) ==
  LET receiver == type_position(shim_method, shim_target_class)
      start == IF ~shim_target_is_static /\ receiver # nullopt
               THEN insert(EmptyMap, 0, ValueOf(receiver))
               ELSE EmptyMap
  IN  infer_loop(start, shim_target_proto,
                 IF shim_target_is_static THEN 0 ELSE 1, shim_method, 0)

\* inference that forgets to skip the receiver slot of an instance target
infer_without_offset(shim_target_class, shim_target_proto, shim_target_is_static, shim_method) ==
  infer_loop(EmptyMap, shim_target_proto, 0, shim_method, 0)

\* infer_parameter_mapping.  get_args() of a proto is never null here: a
\* proto without arguments has the empty type list.
infer_parameter_mapping(shim_target_class, shim_target_proto, shim_target_is_static, shim_method) ==
  infer_loop(EmptyMap, shim_target_proto,
             IF shim_target_is_static THEN 0 ELSE 1, shim_method, 0)

\* what instantiate has built so far: the mapping and the ERRORs logged
NoErrors == {}

\* one iteration that keeps an entry without comparing the two types
instantiate_entry_unchecked(built, shim_target_class, shim_target_proto, shim_target_is_static, shim_method, shim_target_position, shim_position) ==
  LET callee_type == get_parameter_type(shim_target_class, shim_target_proto,
                       shim_target_is_static, shim_target_position)
  IN  IF callee_type = nullptr
      THEN [built EXCEPT !.errors =
              @ \cup {<<"out of range", shim_target_position>>}]
      ELSE [built EXCEPT !.mapping =
              insert(@, shim_target_position, shim_position)]

\* one iteration that gives the whole mapping up on an out-of-range entry
instantiate_entry_reset(built, shim_target_class, shim_target_proto, shim_target_is_static, shim_method, shim_target_position, shim_position) ==
  LET callee_type == get_parameter_type(shim_target_class, shim_target_proto,
                       shim_target_is_static, shim_target_position)
      shim_type == parameter_type(shim_method, shim_position)
  IN  IF callee_type = nullptr
      THEN [mapping |-> EmptyMap,
            errors |-> built.errors
                         \cup {<<"out of range", shim_target_position>>}]
      ELSE IF callee_type # shim_type
      THEN [built EXCEPT !.errors =
              @ \cup {<<"type mismatch", shim_target_position>>}]
      ELSE [built EXCEPT !.mapping =
              insert(@, shim_target_position, shim_position)]

\* one iteration of the loop of instantiate over the declared entries
instantiate_entry(built, shim_target_class, shim_target_proto, shim_target_is_static, shim_method, shim_target_position, shim_position) ==
  LET callee_type == get_parameter_type(shim_target_class, shim_target_proto,
                       shim_target_is_static, shim_target_position)
      shim_type == parameter_type(shim_method, shim_position)
  IN  IF callee_type = nullptr
      THEN [built EXCEPT !.errors =
              @ \cup {<<"out of range", shim_target_position>>}]
      ELSE IF callee_type # shim_type
      THEN [built EXCEPT !.errors =
              @ \cup {<<"type mismatch", shim_target_position>>}]
      ELSE [built EXCEPT !.mapping =
              insert(@, shim_target_position, shim_position)]

RECURSIVE instantiate_loop(_, _, _, _, _, _, _, _)
\* the loop of instantiate; order is the order the map is iterated in
instantiate_loop(built, map_, order, i, shim_target_class, shim_target_proto, shim_target_is_static, shim_method) ==
  IF i > Len(order) THEN built
  ELSE instantiate_loop(
         instantiate_entry(built, shim_target_class, shim_target_proto,
                           shim_target_is_static, shim_method,
                           order[i], map_[order[i]]),
         map_, order, i + 1, shim_target_class, shim_target_proto,
         shim_target_is_static, shim_method)

\* ShimParameterMapping::instantiate
instantiate(map_, order, shim_target_class, shim_target_proto, shim_target_is_static, shim_method) ==
  IF map_ = EmptyMap
  THEN [mapping |-> infer_parameter_mapping(shim_target_class,
                      shim_target_proto, shim_target_is_static, shim_method),
        errors |-> NoErrors]
  ELSE instantiate_loop([mapping |-> EmptyMap, errors |-> NoErrors],
                        map_, order, 1, shim_target_class, shim_target_proto,
                        shim_target_is_static, shim_method)

(***************************************************************************)
(* ShimTarget: call_target_ and parameter_mapping_.                        *)
(***************************************************************************)
\* IRInstruction::srcs_size
srcs_size(instruction) == Len(instruction)

\* IRInstruction::src(i).  Shim.cpp hands it an index it may not have
\* checked; `stray` is what such a read past the operands produces: nullopt
\* when the callee stops the program, Some(r) when it yields a register r.
src(instruction, i, stray) ==
  IF i < srcs_size(instruction) THEN Some(instruction[i + 1]) ELSE stray

Aborted == [status |-> "aborted"]

\* receiver_register without the staticness test
receiver_register_any(shim_target, instruction) ==
  LET receiver_position == at(shim_target.parameter_mapping_, 0)
  IN  IF receiver_position = nullopt
      THEN [status |-> "returned", register |-> nullopt]
      ELSE IF ~(ValueOf(receiver_position) < srcs_size(instruction))
      THEN Aborted
      ELSE [status |-> "returned",
            register |-> src(instruction, ValueOf(receiver_position), nullopt)]

\* ShimTarget::receiver_register
receiver_register(shim_target, instruction) ==
  IF shim_target.call_target_.is_static
  THEN [status |-> "returned", register |-> nullopt]
  ELSE LET receiver_position == at(shim_target.parameter_mapping_, 0)
       IN  IF receiver_position = nullopt
           THEN [status |-> "returned", register |-> nullopt]
           \* mt_assert(*receiver_position < instruction->srcs_size())
           ELSE IF ~(ValueOf(receiver_position) < srcs_size(instruction))
           THEN Aborted
           ELSE [status |-> "returned",
                 register |->
                   src(instruction, ValueOf(receiver_position), nullopt)]

RECURSIVE parameter_registers_loop(_, _, _, _, _)
\* the for loop of parameter_registers, from `position` on
parameter_registers_loop(registers, shim_target, instruction, stray, position) ==
  IF ~(position < number_of_parameters(shim_target.call_target_))
  THEN [status |-> "returned", registers |-> registers]
  ELSE LET shim_position == at(shim_target.parameter_mapping_, position)
       IN  IF shim_position = nullopt
           THEN parameter_registers_loop(registers, shim_target, instruction,
                                         stray, position + 1)
           ELSE LET read == src(instruction, ValueOf(shim_position), stray)
                IN  IF read = nullopt THEN Aborted
                    ELSE parameter_registers_loop(
                           emplace(registers, position, ValueOf(read)),
                           shim_target, instruction, stray, position + 1)

\* ShimTarget::parameter_registers
parameter_registers(shim_target, instruction, stray) ==
  parameter_registers_loop(EmptyMap, shim_target, instruction, stray, 0)

(***************************************************************************)
(* Kinds, taint and taint trees as TransformOperations.cpp uses them.      *)
(***************************************************************************)
Transforms == {"t1", "t2"}

\* a TransformList is never empty; a null list pointer is <<>>
TransformLists == SeqsUpTo(Transforms, MaxTransforms) \ {<<>>}

PlainKinds ==
  [variant : {"PropagationKind"}, name : {"Argument(0)", "LocalReturn"}]
    \cup [variant : {"NamedKind"}, name : {"Source"}]

TransformKinds ==
  [variant : {"TransformKind"}, base_kind : PlainKinds,
   local_transforms : TransformLists, global_transforms : {<<>>, <<"t1">>}]

\* a propagation Frame as far as apply_propagation reads it: its kind
Frames == [kind : PlainKinds \cup TransformKinds]

Fields == {"f"}

Paths == SeqsUpTo(Fields, MaxPathLength)

\* taint at one path: a non-empty set of frames, each a kind name and the
\* local transforms applied to it so far
Taints ==
  (SUBSET [kind : {"k1", "k2"}, local_transforms : {<<>>}]) \ {{}}

\* a TaintTree: the taint held at each of its paths
TaintTrees == UNION {[D -> Taints] : D \in SUBSET Paths}

\* Taint::apply_transform: every frame gets the local transforms prepended
apply_transform(taint, local_transforms) ==
  {[kind |-> frame.kind,
    local_transforms |-> local_transforms \o frame.local_transforms] :
     frame \in taint}

\* TaintTree::write: a weak update joins with what the path holds, a strong
\* update replaces it; no other path is touched
write(tree, path, taint, update_kind) ==
  [p \in DOMAIN tree \cup {path} |->
     IF p # path THEN tree[p]
     ELSE IF update_kind = "Weak" /\ path \in DOMAIN tree
     THEN tree[path] \cup taint
     ELSE taint]

RECURSIVE in_order(_)
in_order(S) ==
  IF S = {} THEN <<>>
  ELSE LET x == CHOOSE y \in S : \A z \in S : Len(y) <= Len(z)
       IN  <<x>> \o in_order(S \ {x})

\* TaintTree::elements: every (path, taint) pair of the tree, once
elements(tree) ==
  LET paths == in_order(DOMAIN tree)
  IN  [i \in DOMAIN paths |-> <<paths[i], tree[paths[i]]>>]

(***************************************************************************)
(* TransformOperations.cpp                                                 *)
(***************************************************************************)
\* the first return with a default-constructed tree in place of the input
return_default_tree(propagation_kind, input_taint_tree) ==
  [status |-> "returned", kind |-> propagation_kind, taint_tree |-> EmptyMap,
   input_taint_tree |-> input_taint_tree]

\* return PropagationInfo{propagation_kind, input_taint_tree}
return_input_tree(propagation_kind, input_taint_tree) ==
  [status |-> "returned", kind |-> propagation_kind,
   taint_tree |-> input_taint_tree, input_taint_tree |-> input_taint_tree]

\* the loop body writing the taint as it came, without the transforms
write_untransformed(output_taint_tree, path, taint, local_transforms) ==
  write(output_taint_tree, path, taint, "Weak")

\* the body of the loop over the elements of the input tree
write_transformed(output_taint_tree, path, taint, local_transforms) ==
  write(output_taint_tree, path, apply_transform(taint, local_transforms), "Weak")

RECURSIVE transform_loop(_, _, _, _)
transform_loop(output_taint_tree, input_elements, i, local_transforms) ==
  IF i > Len(input_elements) THEN output_taint_tree
  ELSE transform_loop(
         write_transformed(output_taint_tree, input_elements[i][1],
                           input_elements[i][2], local_transforms),
         input_elements, i + 1, local_transforms)

\* transforms::apply_propagation.  The context only supplies the kind and
\* transform factories apply_transform uses.
apply_propagation(propagation, input_taint_tree) ==
  LET kind == propagation.kind
  IN  IF kind.variant = "PropagationKind"
      THEN return_input_tree(kind, input_taint_tree)
      \* mt_assert(transform_kind != nullptr)
      ELSE IF kind.variant # "TransformKind" THEN Aborted
      \* mt_assert(transform_kind->global_transforms() == nullptr)
      ELSE IF kind.global_transforms # <<>> THEN Aborted
      \* mt_assert(propagation_kind != nullptr)
      ELSE IF kind.base_kind.variant # "PropagationKind" THEN Aborted
      ELSE [status |-> "returned",
            kind |-> kind.base_kind,
            taint_tree |->
              transform_loop(EmptyMap, elements(input_taint_tree), 1,
                             kind.local_transforms),
            input_taint_tree |-> input_taint_tree]

(***************************************************************************)
(* The calls.                                                              *)
(***************************************************************************)
\* Types are interchangeable, so the declaring class of a shim target is
\* fixed; its argument types and the shim method range over all of T.
TargetMethods(T, n) == {method \in Methods(T, n) : method.cls = "A"}

\* The declaring class of a static shim method is never read.
ShimMethods(T, n) == {method \in Methods(T, n) : method.is_static => method.cls = "A"}

\* the types of the methods an explicit mapping is declared for
MappedTypes == {"A", "B"}

\* parameter mappings with keys in P, values in S and at most MaxEntries
\* entries
Mappings(P, S) ==
  UNION {[D -> S] : D \in {E \in SUBSET P : Cardinality(E) <= MaxEntries}}

\* instantiate on an empty declared mapping
InferenceCalls ==
  [map_ : {EmptyMap}, shim_target : TargetMethods(Types, MaxArgs),
   shim_method : ShimMethods(Types, MaxArgs)]

\* instantiate on a declared mapping; positions run one past the last
\* parameter of either method
ExplicitCalls ==
  UNION {[map_ : Mappings(0..number_of_parameters(target),
                          0..number_of_parameters(method)) \ {EmptyMap},
          shim_target : {target}, shim_method : {method}] :
           target \in TargetMethods(MappedTypes, MaxMappedArgs),
           method \in ShimMethods(MappedTypes, MaxMappedArgs)}

\* receiver_register and parameter_registers read only the staticness and
\* the number of parameters of the target
ShimTargets ==
  UNION {[call_target_ : {target},
          parameter_mapping_ :
            Mappings(0..number_of_parameters(target), 0..MaxSrcs)] :
           target \in TargetMethods({"A"}, MaxMappedArgs)}

Init ==
  /\ op = "none"
  /\ args = EmptyMap
  /\ result = EmptyMap

Instantiate ==
  /\ op = "none"
  /\ \E call \in InferenceCalls \cup ExplicitCalls :
    \E order \in IterationOrders(call.map_) :
      LET built == instantiate(call.map_, order, call.shim_target.cls,
                               call.shim_target.args,
                               call.shim_target.is_static,
                               ShimMethod(call.shim_method))
      IN  /\ op' = "instantiate"
          /\ args' = call
          /\ result' = [status |-> "returned", mapping |-> built.mapping,
                        errors |-> built.errors]

ReceiverRegister ==
  /\ op = "none"
  /\ \E shim_target \in ShimTargets, instruction \in Instructions :
    /\ op' = "receiver_register"
    /\ args' = [shim_target |-> shim_target, instruction |-> instruction]
    /\ result' = receiver_register(shim_target, instruction)

ParameterRegisters ==
  /\ op = "none"
  /\ \E shim_target \in ShimTargets, instruction \in Instructions :
    \E stray \in {nullopt} \cup {Some(r) : r \in Registers} :
      /\ op' = "parameter_registers"
      /\ args' = [shim_target |-> shim_target, instruction |-> instruction]
      /\ result' = parameter_registers(shim_target, instruction, stray)

ApplyPropagation ==
  /\ op = "none"
  /\ \E propagation \in Frames, input_taint_tree \in TaintTrees :
    /\ op' = "apply_propagation"
    /\ args' = [propagation |-> propagation,
                input_taint_tree |-> input_taint_tree]
    /\ result' = apply_propagation(propagation, input_taint_tree)

Next ==
  \/ Instantiate
  \/ ReceiverRegister
  \/ ParameterRegisters
  \/ ApplyPropagation

Spec == Init /\ [][Next]_vars

(***************************************************************************)
(* Vocabulary of the properties.                                           *)
(***************************************************************************)
\* the parameter types of a method by receiver-inclusive position: the
\* declaring class first when the method is not static
ReceiverInclusiveTypes(method) ==
  (IF method.is_static THEN <<>> ELSE <<method.cls>>) \o method.args

\* the positions of `method` that hold `type`
PositionsHolding(method, type) ==
  {s \in 0..(Len(ReceiverInclusiveTypes(method)) - 1) :
     ReceiverInclusiveTypes(method)[s + 1] = type}

\* the type at position s of `method`, nullptr when it has no such parameter
TypeAtOrNull(method, s) ==
  IF s < Len(ReceiverInclusiveTypes(method))
  THEN ReceiverInclusiveTypes(method)[s + 1]
  ELSE nullptr

Inferred == op = "instantiate" /\ args.map_ = EmptyMap

Explicit == op = "instantiate" /\ args.map_ # EmptyMap

\* a declared entry at p is in range for the target and its two types agree
ValidEntry(p) ==
  /\ p < Len(ReceiverInclusiveTypes(args.shim_target))
  /\ TypeAtOrNull(args.shim_target, p)
       = TypeAtOrNull(args.shim_method, args.map_[p])

(***************************************************************************)
(* Inference.                                                              *)
(***************************************************************************)
\* C1 as stated: under inference, when the declaring class of a non-static
\* target is found in the shim method's type index at position s, the
\* instantiated mapping contains 0 -> s.
C1_ReceiverCorrelatedByInference ==
  (Inferred /\ ~args.shim_target.is_static) =>
    \A s \in PositionsHolding(args.shim_method, args.shim_target.cls) :
      (\A r \in PositionsHolding(args.shim_method, args.shim_target.cls) : s <= r)
        => /\ 0 \in DOMAIN result.mapping
           /\ result.mapping[0] = s

\* C1 amended: under inference the receiver of a non-static target is never
\* correlated; the instantiated mapping has entries only at the positions
\* 1..n of the n declared parameters, whether or not the declaring class of
\* the target occurs in the shim method.
C1_ReceiverNotInferred ==
  (Inferred /\ ~args.shim_target.is_static) =>
    DOMAIN result.mapping \subseteq 1..Len(args.shim_target.args)

\* a non-static target whose declaring class is in the shim method's index,
\* instantiated by inference to a non-empty mapping without key 0
C1_Witness ==
  /\ Inferred
  /\ ~args.shim_target.is_static
  /\ PositionsHolding(args.shim_method, args.shim_target.cls) # {}
  /\ result.mapping # EmptyMap
  /\ 0 \notin DOMAIN result.mapping

\* C3: on an empty declared mapping, instantiate returns exactly the
\* inferred mapping: the declared parameter at index i (position i for a
\* static target, i + 1 for a non-static one) is mapped to the first shim
\* position holding its type, has no entry when no shim position holds it,
\* and there are no other entries.  A static target [A, B, C] against a
\* static shim method [A, B, C] yields {0 -> 0, 1 -> 1, 2 -> 2}.
C3_InferredMappingIsFirstTypeMatch ==
  Inferred =>
    LET target == args.shim_target
        first == IF target.is_static THEN 0 ELSE 1
    IN  /\ result.status = "returned"
        /\ DOMAIN result.mapping \subseteq {i - 1 + first : i \in DOMAIN target.args}
        /\ \A i \in DOMAIN target.args :
             LET holders == PositionsHolding(args.shim_method, target.args[i])
             IN  IF holders = {}
                 THEN (i - 1 + first) \notin DOMAIN result.mapping
                 ELSE /\ (i - 1 + first) \in DOMAIN result.mapping
                      /\ result.mapping[i - 1 + first] \in holders
                      /\ \A s \in holders : result.mapping[i - 1 + first] <= s
        /\ ( /\ target.is_static
             /\ args.shim_method.is_static
             /\ target.args = <<"A", "B", "C">>
             /\ args.shim_method.args = <<"A", "B", "C">> )
             => result.mapping = [p \in 0..2 |-> p]

\* a static target [A, B, C] inferred against the instance method of class
\* A with arguments [A, B]: A is held at 0 and 1, B at 2, C nowhere
C3_Witness ==
  /\ Inferred
  /\ args.shim_target.is_static
  /\ args.shim_target.args = <<"A", "B", "C">>
  /\ ~args.shim_method.is_static
  /\ args.shim_method.cls = "A"
  /\ args.shim_method.args = <<"A", "B">>
  /\ result.mapping = [p \in {0, 1} |-> IF p = 0 THEN 0 ELSE 2]

(***************************************************************************)
(* Explicit mappings.                                                      *)
(***************************************************************************)
\* C4: on a non-empty declared mapping, an in-range entry p -> s is kept
\* if and only if the target's type at p is the shim method's type at s
\* (no type when the shim method has no parameter s); a kept entry has the
\* declared key and value.
C4_ExplicitEntryKeptIffTypesMatch ==
  Explicit =>
    \A p \in DOMAIN args.map_ :
      p < Len(ReceiverInclusiveTypes(args.shim_target)) =>
        /\ (p \in DOMAIN result.mapping) <=> ValidEntry(p)
        /\ (p \in DOMAIN result.mapping) => result.mapping[p] = args.map_[p]

\* a declared mapping with a matching entry that is kept and an in-range
\* entry dropped because the shim method has no parameter at its position
C4_Witness ==
  /\ Explicit
  /\ \E p, q \in DOMAIN args.map_ :
       /\ p \in DOMAIN result.mapping
       /\ result.mapping[p] = args.map_[p]
       /\ q < Len(ReceiverInclusiveTypes(args.shim_target))
       /\ TypeAtOrNull(args.shim_method, args.map_[q]) = nullptr
       /\ q \notin DOMAIN result.mapping

\* C5: on a non-empty declared mapping, an entry whose target position is
\* out of range (receiver included for a non-static target) is dropped,
\* instantiate still returns, and every in-range, type-matching entry is in
\* the result, whatever the order the entries are visited in.
C5_OutOfRangeEntryDroppedOthersKept ==
  Explicit =>
    /\ result.status = "returned"
    /\ \A p \in DOMAIN args.map_ :
         IF p >= Len(args.shim_target.args) + (IF args.shim_target.is_static THEN 0 ELSE 1)
         THEN /\ p \notin DOMAIN result.mapping
              /\ <<"out of range", p>> \in result.errors
         ELSE ValidEntry(p) =>
                /\ p \in DOMAIN result.mapping
                /\ result.mapping[p] = args.map_[p]

\* a declared mapping with an out-of-range entry, dropped, next to a valid
\* entry, kept
C5_Witness ==
  /\ Explicit
  /\ result.status = "returned"
  /\ \E p, q \in DOMAIN args.map_ :
       /\ p >= Len(ReceiverInclusiveTypes(args.shim_target))
       /\ p \notin DOMAIN result.mapping
       /\ ValidEntry(q)
       /\ q \in DOMAIN result.mapping

\* C10: every entry p -> s of a mapping instantiate returns, by inference
\* or from a declared mapping, has p below the receiver-inclusive parameter
\* count of the target and the target's type at p is the shim method's
\* type at s.
C10_InstantiatedMappingIsTypeCorrect ==
  op = "instantiate" =>
    \A p \in DOMAIN result.mapping :
      /\ p < Len(ReceiverInclusiveTypes(args.shim_target))
      /\ result.mapping[p] < Len(ReceiverInclusiveTypes(args.shim_method))
      /\ ReceiverInclusiveTypes(args.shim_target)[p + 1]
           = ReceiverInclusiveTypes(args.shim_method)[result.mapping[p] + 1]

\* a non-static target whose first declared parameter is inferred to be
\* the receiver of the shim method
C10_Witness ==
  /\ Inferred
  /\ ~args.shim_target.is_static
  /\ ~args.shim_method.is_static
  /\ 1 \in DOMAIN result.mapping
  /\ result.mapping[1] = 0
  /\ args.shim_target.args[1] = args.shim_method.cls
  /\ args.shim_target.args[1] # args.shim_target.cls

(***************************************************************************)
(* Operand resolution.                                                     *)
(***************************************************************************)
\* the shim positions the call resolved against the instruction's operands
ResolvedShimPositions ==
  LET target == args.shim_target.call_target_
      mapping == args.shim_target.parameter_mapping_
  IN  IF op = "receiver_register"
      THEN IF ~target.is_static /\ 0 \in DOMAIN mapping
           THEN {mapping[0]} ELSE {}
      ELSE {mapping[p] : p \in DOMAIN mapping
                           \cap 0..(Len(ReceiverInclusiveTypes(target)) - 1)}

\* C2 as stated: when receiver_register or parameter_registers resolves a
\* mapped shim position at or past the operand count of the instruction,
\* the call aborts; it never returns.
C2_OutOfRangeShimPositionAborts ==
  (op \in {"receiver_register", "parameter_registers"}) =>
    ((\E s \in ResolvedShimPositions : s >= Len(args.instruction))
       => result.status = "aborted")

\* C6: receiver_register returns the operand at shim position mapping[0]
\* when the target is not static and the mapping has an entry for 0; it
\* returns none for a static target, whatever the mapping holds, and for a
\* non-static target whose mapping has no entry for 0.  A mapped position
\* past the operands trips the assertion.
C6_ReceiverRegister ==
  op = "receiver_register" =>
    LET target == args.shim_target.call_target_
        mapping == args.shim_target.parameter_mapping_
    IN  IF target.is_static \/ 0 \notin DOMAIN mapping
        THEN result.status = "returned" /\ result.register = {}
        ELSE IF mapping[0] < Len(args.instruction)
        THEN /\ result.status = "returned"
             /\ result.register = {args.instruction[mapping[0] + 1]}
        ELSE result.status = "aborted"

\* a non-static target whose receiver is the second operand of the call
C6_Witness ==
  /\ op = "receiver_register"
  /\ ~args.shim_target.call_target_.is_static
  /\ 0 \in DOMAIN args.shim_target.parameter_mapping_
  /\ args.shim_target.parameter_mapping_[0] = 1
  /\ Len(args.instruction) = 2
  /\ args.instruction[1] # args.instruction[2]
  /\ result.status = "returned"
  /\ result.register = {args.instruction[2]}

\* C7 as stated: parameter_registers returns a map whose keys are exactly
\* the target positions below the target's parameter count that have a
\* mapping entry, and whose value at p is the instruction operand at shim
\* position mapping[p].
C7_ParameterRegisters ==
  (op = "parameter_registers" /\ result.status = "returned") =>
    LET target == args.shim_target.call_target_
        mapping == args.shim_target.parameter_mapping_
    IN  /\ DOMAIN result.registers
             = DOMAIN mapping \cap 0..(Len(ReceiverInclusiveTypes(target)) - 1)
        /\ \A p \in DOMAIN result.registers :
             /\ mapping[p] < Len(args.instruction)
             /\ result.registers[p] = args.instruction[mapping[p] + 1]

(***************************************************************************)
(* Propagation.                                                            *)
(***************************************************************************)
\* C8: for a frame whose kind is a TransformKind without global transforms
\* over a PropagationKind, apply_propagation returns the base kind and a
\* tree with exactly the paths of the input tree, each holding
\* apply_transform of the input's taint at that path with the local
\* transforms; the input tree is as it was.
C8_TransformPropagation ==
  ( /\ op = "apply_propagation"
    /\ args.propagation.kind.variant = "TransformKind"
    /\ args.propagation.kind.global_transforms = <<>>
    /\ args.propagation.kind.base_kind.variant = "PropagationKind" ) =>
    /\ result.status = "returned"
    /\ result.kind = args.propagation.kind.base_kind
    /\ DOMAIN result.taint_tree = DOMAIN args.input_taint_tree
    /\ \A path \in DOMAIN args.input_taint_tree :
         result.taint_tree[path]
           = {[kind |-> frame.kind,
               local_transforms |->
                 args.propagation.kind.local_transforms \o frame.local_transforms] :
                frame \in args.input_taint_tree[path]}
    /\ result.input_taint_tree = args.input_taint_tree

\* a transform propagation applied to a tree with taint at two paths
C8_Witness ==
  /\ op = "apply_propagation"
  /\ args.propagation.kind.variant = "TransformKind"
  /\ result.status = "returned"
  /\ Cardinality(DOMAIN args.input_taint_tree) = 2
  /\ DOMAIN result.taint_tree = DOMAIN args.input_taint_tree
  /\ \E path \in DOMAIN result.taint_tree :
       \E frame \in result.taint_tree[path] : frame.local_transforms # <<>>

\* C9: for a frame whose kind is a plain PropagationKind, apply_propagation
\* returns that kind and a tree equal to the input tree, no frame of which
\* has a transform applied.
C9_IdentityPropagation ==
  (op = "apply_propagation" /\ args.propagation.kind.variant = "PropagationKind") =>
    /\ result.status = "returned"
    /\ result.kind = args.propagation.kind
    /\ result.taint_tree = args.input_taint_tree
    /\ \A path \in DOMAIN result.taint_tree :
         \A frame \in result.taint_tree[path] : frame.local_transforms = <<>>

\* a plain propagation applied to a tree that holds taint
C9_Witness ==
  /\ op = "apply_propagation"
  /\ args.propagation.kind.variant = "PropagationKind"
  /\ args.input_taint_tree # EmptyMap
  /\ result.status = "returned"
  /\ result.taint_tree = args.input_taint_tree

====
